---- MODULE Spec2Model ----
(***************************************************************************)
(* Model of the nebulet container service: the reconciler loop of          *)
(* ProcessorService (src/src/services/processor.rs), the record store it   *)
(* shares with the REST handlers (src/src/api/handlers.rs) and the         *)
(* container record (src/src/models/v1/container.rs).                      *)
(*                                                                         *)
(* The Docker daemon and the SQLite database are external: every driver    *)
(* call and every database call may succeed or fail, chosen with \E.       *)
(* Every .await of the reconciler is a separate step, so the handlers      *)
(* (which run as other tokio tasks) interleave with it there.              *)
(***************************************************************************)
EXTENDS Naturals, Sequences, FiniteSets

\* ---------------------------------------------------------------- bounds
\* Number of record ids (uuids) the model draws from.
MaxId == 2

\* Number of rows the database may hold when the service starts.
MaxInit == 1

Ids == 1..MaxId

\* ------------------------------------------------------- values of the code
None == "None"
Err == "Err"

\* Container ids the Docker daemon may return from create_container.
Handles == {"rt-1", "rt-2"}

\* ContainerStatus::as_str: the six names of the enumeration.
StatusNames == {"Pending", "Created", "Running", "Stopped", "Failed", "Removing"}

\* State strings the Docker daemon reports on inspect (lower case).
InspectStates == {"running", "exited"}

\* A row of the containers table (name and image never change and are left out).
Row(s, d, t) == [present |-> TRUE, status |-> s, docker_id |-> d, updated_at |-> t]

NoRow == [present |-> FALSE, status |-> "", docker_id |-> None, updated_at |-> 0]

\* Rows a database file can hold when the service starts: the rows the data
\* model describes (Pending has no docker_id; Created and Running have one).
InitRows ==
    {Row("Pending", None, 0), Row("Created", "rt-1", 0), Row("Running", "rt-1", 0)}
    \cup {Row(s, d, 0) : s \in {"Stopped", "Failed", "Removing"}, d \in {None, "rt-1"}}

\* Rows the containers table admits (status is a free string, docker_id is
\* nullable): besides the rows above, Created and Running rows without a
\* docker_id.
AnyRows == InitRows \cup {Row("Created", None, 0), Row("Running", None, 0)}

VARIABLES
    store,            \* the containers table: id -> row
    nextId,           \* the next fresh uuid
    shutdown_signal,  \* ProcessorService.shutdown_signal
    pc,               \* where the reconciler loop is
    listing,          \* `containers` of process_containers: the listed rows the
                      \* for loop has not consumed yet
    cur,              \* the id of the row the for loop is at
    upd,              \* arguments of the update_container_status call in flight
    ops,              \* driver and store calls made for the current row
    res,              \* result of process_single_container for the current row
    errs,             \* whether the for loop has logged an error in this tick
    listed,           \* how the listing of the tick ended: "none", "ok", "err"
    hpc,              \* where the delete_container handler in flight is
    hid,              \* its container_id
    hdocker           \* whether it called docker stop and remove

vars == <<store, nextId, shutdown_signal, pc, listing, cur, upd, ops, res,
          errs, listed, hpc, hid, hdocker>>

recon == <<pc, listing, cur, upd, ops, res, errs, listed>>
handler == <<hpc, hid, hdocker>>

NoUpd == [status |-> "", docker_id |-> None]

Op(o, k, v) == [op |-> o, ok |-> k, val |-> v]

\* The listed ids after `i`, in the order of the listing.
Later(i) == {j \in Ids : j > i /\ listing[j].present}

Min(S) == CHOOSE x \in S : \A y \in S : x <= y

\* Utc::now() read while `row` is being written. The clock moves forward and
\* time passes between two writes of a row, so the reading is later than the
\* stamp the row holds. A stamp is only ever compared with another stamp of
\* the same row, so time is counted per row, from the row's insertion.
Now(row) == row.updated_at + 1

Init ==
    /\ \E n \in 0..MaxInit :
        /\ store \in {f \in [Ids -> InitRows \cup {NoRow}] :
                        \A i \in Ids : f[i].present <=> i <= n}
        /\ nextId = n + 1
    /\ shutdown_signal = FALSE
    /\ pc = "check"
    /\ listing = [i \in Ids |-> NoRow]
    /\ cur = 0
    /\ upd = NoUpd
    /\ ops = <<>>
    /\ res = "none"
    /\ errs = FALSE
    /\ listed = "none"
    /\ hpc = "idle"
    /\ hid = 0
    /\ hdocker = FALSE

\* The service started on a database file that holds any row the table
\* admits.
InitAny ==
    /\ \E n \in 0..MaxInit :
        /\ store \in {f \in [Ids -> AnyRows \cup {NoRow}] :
                        \A i \in Ids : f[i].present <=> i <= n}
        /\ nextId = n + 1
    /\ shutdown_signal = FALSE
    /\ pc = "check"
    /\ listing = [i \in Ids |-> NoRow]
    /\ cur = 0
    /\ upd = NoUpd
    /\ ops = <<>>
    /\ res = "none"
    /\ errs = FALSE
    /\ listed = "none"
    /\ hpc = "idle"
    /\ hid = 0
    /\ hdocker = FALSE

\* ------------------------------------------------- ProcessorService: the loop
\* Mutant of LoopCheck: the loop also stops when the tick before logged an
\* error for a row.
LoopCheck_StopsOnError ==
    /\ pc = "check"
    /\ pc' = IF shutdown_signal \/ errs THEN "done" ELSE "wait"
    /\ listing' = [i \in Ids |-> NoRow]
    /\ errs' = FALSE
    /\ listed' = "none"
    /\ UNCHANGED <<store, nextId, shutdown_signal, cur, upd, ops, res, handler>>

\* run_main_loop, top of the loop: the flag is read before the timer is
\* awaited. The locals of the process_containers call that returned are gone.
LoopCheck ==
    /\ pc = "check"
    /\ pc' = IF shutdown_signal THEN "done" ELSE "wait"
    /\ listing' = [i \in Ids |-> NoRow]
    /\ errs' = FALSE
    /\ listed' = "none"
    /\ UNCHANGED <<store, nextId, shutdown_signal, cur, upd, ops, res, handler>>

\* run_main_loop: interval.tick().await returns; process_containers is called.
LoopTick ==
    /\ pc = "wait"
    /\ pc' = "list"
    /\ UNCHANGED <<store, nextId, shutdown_signal, listing, cur, upd, ops, res,
                   errs, listed, handler>>

\* shutdown(): sets the flag. The flag is an Arc<Mutex<bool>>, written from
\* another execution context at any moment of the loop.
shutdown ==
    /\ shutdown_signal' = TRUE
    /\ UNCHANGED <<store, nextId, recon, handler>>

\* Mutant of AfterListError: the error is propagated with `?` and ends the loop.
AfterListError_Propagates == "done"

\* run_main_loop: where the loop goes when process_containers returned an
\* error: it logs the error and goes round the loop.
AfterListError == "check"

\* process_containers: ContainerEntity::find().all()?. An error returns from
\* process_containers to run_main_loop.
ListAll(ok) ==
    /\ pc = "list"
    /\ errs' = FALSE
    /\ upd' = NoUpd
    /\ ops' = <<>>
    /\ res' = "none"
    /\ listed' = IF ok THEN "ok" ELSE "err"
    /\ IF ok /\ \E i \in Ids : store[i].present
         THEN /\ listing' = store
              /\ cur' = Min({i \in Ids : store[i].present})
              /\ pc' = "proc"
         ELSE /\ listing' = [i \in Ids |-> NoRow]
              /\ cur' = 0
              /\ pc' = IF ok THEN "check" ELSE AfterListError
    /\ UNCHANGED <<store, nextId, shutdown_signal, handler>>

\* Mutant of StopsAt: the for loop looks at the flag and breaks when it is set.
StopsAt_OnShutdown(r) == shutdown_signal

\* Mutant of StopsAt: the error is propagated with `?` and ends the tick.
StopsAt_OnError(r) == r # "ok"

\* Whether the for loop of process_containers stops at a row whose
\* process_single_container returned `r`: it logs the error and goes on.
StopsAt(r) == FALSE

\* process_containers: process_single_container has returned for the row at
\* `cur`; the for loop logs an error, drops the row it consumed and goes to
\* the next listed row. When it stops, process_containers returns to the loop.
ForNext ==
    /\ pc = "ret"
    /\ listing' = [listing EXCEPT ![cur] = NoRow]
    /\ errs' = (errs \/ res # "ok")
    /\ upd' = NoUpd
    /\ ops' = <<>>
    /\ res' = "none"
    /\ IF Later(cur) = {} \/ StopsAt(res)
         THEN cur' = 0 /\ pc' = "check"
         ELSE cur' = Min(Later(cur)) /\ pc' = "proc"
    /\ UNCHANGED <<store, nextId, shutdown_signal, listed, handler>>

\* ----------------------------- ProcessorService::process_single_container
\* The row the for loop hands to process_single_container.
container == listing[cur]

\* Mutant of PendingUpdate: after a failed create the row is left Pending,
\* to be tried again.
PendingUpdate_RetriesCreate(r) ==
    IF r = Err THEN [status |-> "Pending", docker_id |-> None]
               ELSE [status |-> "Created", docker_id |-> r]

\* Mutant of PendingUpdate: the id docker returned is not passed on.
PendingUpdate_DropsId(r) ==
    IF r = Err THEN [status |-> "Failed", docker_id |-> None]
               ELSE [status |-> "Created", docker_id |-> None]

\* "Pending": the arguments of update_container_status after docker
\* create_container returned `r` (a container id, or Err).
PendingUpdate(r) ==
    IF r = Err THEN [status |-> "Failed", docker_id |-> None]
               ELSE [status |-> "Created", docker_id |-> r]

\* Mutant of CreatedUpdate: the result of start_container is not looked at.
CreatedUpdate_IgnoresError(ok) == [status |-> "Running", docker_id |-> None]

\* "Created": the arguments of update_container_status after start_container.
CreatedUpdate(ok) ==
    [status |-> IF ok THEN "Running" ELSE "Failed", docker_id |-> None]

\* Mutant of RunningWrites: the comparison is made with the enumeration name.
RunningWrites_EnumName(s) == s # "Running"

\* "Running": whether the reported status leads to a write.
RunningWrites(s) == s # "running"

\* "Running": the arguments of update_container_status: the status string
\* the daemon reported is passed on as it is.
RunningUpdate(s) == [status |-> s, docker_id |-> None]

\* "Pending": docker.create_container(name, image).
ProcPending(r) ==
    /\ pc = "proc"
    /\ container.status = "Pending"
    /\ ops' = Append(ops, Op("create", r # Err, r))
    /\ upd' = PendingUpdate(r)
    /\ pc' = "find"
    /\ UNCHANGED <<store, nextId, shutdown_signal, listing, cur, res, errs,
                   listed, handler>>

\* Mutant of ProcCreated: the docker_id is used without the `if let Some`.
ProcCreated_NoIdCheck(ok) ==
    /\ pc = "proc"
    /\ container.status = "Created"
    /\ ops' = Append(ops, Op("start", ok, container.docker_id))
    /\ upd' = CreatedUpdate(ok)
    /\ pc' = "find"
    /\ UNCHANGED <<store, nextId, shutdown_signal, listing, cur, res, errs,
                   listed, handler>>

\* "Created": docker.start_container(docker_id), when there is a docker_id.
ProcCreated(ok) ==
    /\ pc = "proc"
    /\ container.status = "Created"
    /\ IF container.docker_id # None
         THEN /\ ops' = Append(ops, Op("start", ok, container.docker_id))
              /\ upd' = CreatedUpdate(ok)
              /\ pc' = "find"
              /\ res' = res
         ELSE /\ ok
              /\ pc' = "ret"
              /\ res' = "ok"
              /\ UNCHANGED <<ops, upd>>
    /\ UNCHANGED <<store, nextId, shutdown_signal, listing, cur, errs, listed,
                   handler>>

\* "Running": docker.get_container_status(docker_id)?; an error returns from
\* process_single_container.
ProcRunning(r) ==
    /\ pc = "proc"
    /\ container.status = "Running"
    /\ IF container.docker_id # None
         THEN /\ ops' = Append(ops, Op("inspect", r # Err, r))
              /\ IF r = Err
                   THEN pc' = "ret" /\ res' = "driver_err" /\ upd' = upd
                   ELSE IF RunningWrites(r)
                          THEN pc' = "find" /\ res' = res /\ upd' = RunningUpdate(r)
                          ELSE pc' = "ret" /\ res' = "ok" /\ upd' = upd
         ELSE /\ r = Err
              /\ pc' = "ret"
              /\ res' = "ok"
              /\ UNCHANGED <<ops, upd>>
    /\ UNCHANGED <<store, nextId, shutdown_signal, listing, cur, errs, listed,
                   handler>>

\* Mutant of ProcRemovingStop: a stop failure is propagated with `?`.
ProcRemovingStop_Propagates(ok) ==
    /\ pc = "proc"
    /\ container.status = "Removing"
    /\ container.docker_id # None
    /\ ops' = Append(ops, Op("stop", ok, container.docker_id))
    /\ pc' = IF ok THEN "remove" ELSE "ret"
    /\ res' = IF ok THEN res ELSE "driver_err"
    /\ UNCHANGED <<store, nextId, shutdown_signal, listing, cur, upd, errs,
                   listed, handler>>

\* Mutant of ProcRemovingStop: remove_container sits in the Ok arm of stop.
ProcRemovingStop_SkipsRemove(ok) ==
    /\ pc = "proc"
    /\ container.status = "Removing"
    /\ container.docker_id # None
    /\ ops' = Append(ops, Op("stop", ok, container.docker_id))
    /\ pc' = IF ok THEN "remove" ELSE "delete"
    /\ UNCHANGED <<store, nextId, shutdown_signal, listing, cur, upd, res, errs,
                   listed, handler>>

\* "Removing": docker.stop_container(docker_id); a failure is only logged.
ProcRemovingStop(ok) ==
    /\ pc = "proc"
    /\ container.status = "Removing"
    /\ container.docker_id # None
    /\ ops' = Append(ops, Op("stop", ok, container.docker_id))
    /\ pc' = "remove"
    /\ UNCHANGED <<store, nextId, shutdown_signal, listing, cur, upd, res, errs,
                   listed, handler>>

\* "Removing": docker.remove_container(docker_id); a failure is only logged.
ProcRemovingRemove(ok) ==
    /\ pc = "remove"
    /\ ops' = Append(ops, Op("remove", ok, container.docker_id))
    /\ pc' = "delete"
    /\ UNCHANGED <<store, nextId, shutdown_signal, listing, cur, upd, res, errs,
                   listed, handler>>

\* "Removing": ContainerEntity::delete_by_id(id).exec()?; deleting a row
\* that is gone is no error.
ProcRemovingDelete(ok) ==
    /\ \/ pc = "delete"
       \/ pc = "proc" /\ container.status = "Removing" /\ container.docker_id = None
    /\ ops' = Append(ops, Op("delete", ok, None))
    /\ store' = IF ok THEN [store EXCEPT ![cur] = NoRow] ELSE store
    /\ res' = IF ok THEN "ok" ELSE "store_err"
    /\ pc' = "ret"
    /\ UNCHANGED <<nextId, shutdown_signal, listing, cur, upd, errs, listed,
                   handler>>

\* Mutant of ProcStoppedFailed: the arm only logs, without the cleanup.
ProcStoppedFailed_SkipsCleanup(ok) ==
    /\ pc = "proc"
    /\ container.status \in {"Stopped", "Failed"}
    /\ ok
    /\ pc' = "ret"
    /\ res' = "ok"
    /\ UNCHANGED <<store, nextId, shutdown_signal, listing, cur, upd, ops, errs,
                   listed, handler>>

\* Mutant of ProcStoppedFailed: after a successful cleanup the row is
\* written as Stopped.
ProcStoppedFailed_Updates(ok) ==
    /\ pc = "proc"
    /\ container.status \in {"Stopped", "Failed"}
    /\ IF container.docker_id # None
         THEN /\ ops' = Append(ops, Op("remove", ok, container.docker_id))
              /\ upd' = IF ok THEN [status |-> "Stopped", docker_id |-> None] ELSE upd
              /\ pc' = IF ok THEN "find" ELSE "ret"
              /\ res' = IF ok THEN res ELSE "ok"
         ELSE /\ ok
              /\ ops' = ops
              /\ upd' = upd
              /\ pc' = "ret"
              /\ res' = "ok"
    /\ UNCHANGED <<store, nextId, shutdown_signal, listing, cur, errs, listed,
                   handler>>

\* "Stopped" | "Failed": docker.remove_container(docker_id) when there is
\* one; a failure is only logged.
ProcStoppedFailed(ok) ==
    /\ pc = "proc"
    /\ container.status \in {"Stopped", "Failed"}
    /\ IF container.docker_id # None
         THEN ops' = Append(ops, Op("remove", ok, container.docker_id))
         ELSE ok /\ ops' = ops
    /\ pc' = "ret"
    /\ res' = "ok"
    /\ UNCHANGED <<store, nextId, shutdown_signal, listing, cur, upd, errs,
                   listed, handler>>

\* Mutant of ProcUnknown: a status that is no enumeration name is taken for
\* Stopped and written back.
ProcUnknown_WritesStopped ==
    /\ pc = "proc"
    /\ container.status \notin StatusNames
    /\ upd' = [status |-> "Stopped", docker_id |-> None]
    /\ pc' = "find"
    /\ UNCHANGED <<store, nextId, shutdown_signal, listing, cur, ops, res, errs,
                   listed, handler>>

\* _ : an unknown status is logged.
ProcUnknown ==
    /\ pc = "proc"
    /\ container.status \notin StatusNames
    /\ pc' = "ret"
    /\ res' = "ok"
    /\ UNCHANGED <<store, nextId, shutdown_signal, listing, cur, upd, ops, errs,
                   listed, handler>>

\* ------------------------------ ProcessorService::update_container_status
\* Mutant of ApplyUpdate: updated_at is not refreshed.
ApplyUpdate_KeepsStamp(row, u, now) ==
    [row EXCEPT !.status = u.status,
                !.docker_id = IF u.docker_id # None THEN u.docker_id ELSE @]

\* Mutant of ApplyUpdate: docker_id is set from the argument even when None.
ApplyUpdate_OverwritesDockerId(row, u, now) ==
    [row EXCEPT !.status = u.status, !.updated_at = now, !.docker_id = u.docker_id]

\* The row update_container_status writes: status and updated_at are set,
\* docker_id only when one is given.
ApplyUpdate(row, u, now) ==
    [row EXCEPT !.status = u.status,
                !.updated_at = now,
                !.docker_id = IF u.docker_id # None THEN u.docker_id ELSE @]

\* ContainerEntity::find_by_id(id).one()?.ok_or_else("Container not found")?
UpdateFind(ok) ==
    /\ pc = "find"
    /\ ops' = Append(ops, Op("find", ok /\ store[cur].present, None))
    /\ IF ok /\ store[cur].present
         THEN pc' = "write" /\ res' = res
         ELSE pc' = "ret" /\ res' = "store_err"
    /\ UNCHANGED <<store, nextId, shutdown_signal, listing, cur, upd, errs,
                   listed, handler>>

\* Mutant of UpdateWrite: the row is saved with an upsert, which inserts it
\* when it is gone.
UpdateWrite_Upserts(ok) ==
    /\ pc = "write"
    /\ ops' = Append(ops, Op("write", ok, None))
    /\ IF ok
         THEN /\ store' = [store EXCEPT ![cur] =
                            ApplyUpdate(IF @.present THEN @ ELSE container, upd,
                                        Now(IF @.present THEN @ ELSE container))]
              /\ res' = "ok"
         ELSE /\ res' = "store_err"
              /\ UNCHANGED store
    /\ pc' = "ret"
    /\ UNCHANGED <<nextId, shutdown_signal, listing, cur, upd, errs, listed,
                   handler>>

\* active_model.update()?: an UPDATE of the set columns of the row with this
\* id; it fails when the database fails or the row is gone.
UpdateWrite(ok) ==
    /\ pc = "write"
    /\ ops' = Append(ops, Op("write", ok /\ store[cur].present, None))
    /\ IF ok /\ store[cur].present
         THEN /\ store' = [store EXCEPT ![cur] = ApplyUpdate(@, upd, Now(@))]
              /\ res' = "ok"
         ELSE /\ res' = "store_err"
              /\ UNCHANGED store
    /\ pc' = "ret"
    /\ UNCHANGED <<nextId, shutdown_signal, listing, cur, upd, errs, listed,
                   handler>>

\* ------------------------------------------------------- the REST handlers
\* Mutant of CreateRow: the status set from the docker result is left out,
\* so the row keeps the Pending it was built with.
CreateRow_KeepsPending(r, now) == Row("Pending", IF r # Err THEN r ELSE None, now)

\* create_container: the row built from the request (status Pending, no
\* docker_id, both time stamps now) with status and docker_id then set from
\* the result `r` of docker.create_container, which the handler calls first.
CreateRow(r, now) ==
    Row(IF r # Err THEN "Created" ELSE "Failed", IF r # Err THEN r ELSE None, now)

\* create_container: docker create, then the insert of the row under a
\* fresh uuid; an insert error answers 500 and stores nothing.
create_container(r, ok) ==
    /\ nextId <= MaxId
    /\ IF ok
         THEN /\ store' = [store EXCEPT ![nextId] = CreateRow(r, Now(NoRow))]
              /\ nextId' = nextId + 1
         ELSE UNCHANGED <<store, nextId>>
    /\ UNCHANGED <<shutdown_signal, recon, handler>>

\* delete_container: find_by_id (500 on a database error, 404 when the row
\* is not there), then docker stop_container and remove_container on the
\* docker_id of the row when it has one; their failures are only logged.
\* hdocker records that the handler called the driver.
DeleteFind(i, ok, okStop, okRemove) ==
    /\ hpc = "idle"
    /\ IF ok /\ store[i].present
         THEN /\ hid' = i
              /\ hpc' = "exec"
              /\ hdocker' = (store[i].docker_id # None)
         ELSE UNCHANGED handler
    /\ UNCHANGED <<store, nextId, shutdown_signal, recon>>

\* delete_container: delete_by_id; an error answers 500.
DeleteExec(ok) ==
    /\ hpc = "exec"
    /\ store' = IF ok THEN [store EXCEPT ![hid] = NoRow] ELSE store
    /\ hpc' = "idle"
    /\ hid' = 0
    /\ hdocker' = FALSE
    /\ UNCHANGED <<nextId, shutdown_signal, recon>>

\* ------------------------------------------------------- the specification
Next ==
    \/ LoopCheck
    \/ LoopTick
    \/ shutdown
    \/ \E ok \in BOOLEAN : ListAll(ok)
    \/ ForNext
    \/ \E r \in Handles \cup {Err} : ProcPending(r)
    \/ \E ok \in BOOLEAN : ProcCreated(ok)
    \/ \E r \in InspectStates \cup {Err} : ProcRunning(r)
    \/ \E ok \in BOOLEAN : ProcRemovingStop(ok)
    \/ \E ok \in BOOLEAN : ProcRemovingRemove(ok)
    \/ \E ok \in BOOLEAN : ProcRemovingDelete(ok)
    \/ \E ok \in BOOLEAN : ProcStoppedFailed(ok)
    \/ ProcUnknown
    \/ \E ok \in BOOLEAN : UpdateFind(ok)
    \/ \E ok \in BOOLEAN : UpdateWrite(ok)
    \/ \E r \in Handles \cup {Err}, ok \in BOOLEAN : create_container(r, ok)
    \/ \E i \in Ids, ok, okStop, okRemove \in BOOLEAN : DeleteFind(i, ok, okStop, okRemove)
    \/ \E ok \in BOOLEAN : DeleteExec(ok)

Spec == Init /\ [][Next]_vars

\* The program started on any database file.
SpecAny == InitAny /\ [][Next]_vars

\* The steps of the task that runs start(): the loop, process_containers,
\* process_single_container and update_container_status, every call
\* returning with any outcome.
Reconciler ==
    \/ LoopCheck
    \/ LoopTick
    \/ \E ok \in BOOLEAN : ListAll(ok)
    \/ ForNext
    \/ \E r \in Handles \cup {Err} : ProcPending(r)
    \/ \E ok \in BOOLEAN : ProcCreated(ok)
    \/ \E r \in InspectStates \cup {Err} : ProcRunning(r)
    \/ \E ok \in BOOLEAN : ProcRemovingStop(ok)
    \/ \E ok \in BOOLEAN : ProcRemovingRemove(ok)
    \/ \E ok \in BOOLEAN : ProcRemovingDelete(ok)
    \/ \E ok \in BOOLEAN : ProcStoppedFailed(ok)
    \/ ProcUnknown
    \/ \E ok \in BOOLEAN : UpdateFind(ok)
    \/ \E ok \in BOOLEAN : UpdateWrite(ok)

\* The program with a scheduler that runs the task of start() whenever it
\* can take a step: the timer fires and every awaited call returns.
SpecFair == Init /\ [][Next]_vars /\ WF_vars(Reconciler)

\* The steps of the task of start() when every store call succeeds (the
\* driver calls return with any outcome).
ReconcilerLive ==
    \/ LoopCheck
    \/ LoopTick
    \/ ListAll(TRUE)
    \/ ForNext
    \/ \E r \in Handles \cup {Err} : ProcPending(r)
    \/ \E ok \in BOOLEAN : ProcCreated(ok)
    \/ \E r \in InspectStates \cup {Err} : ProcRunning(r)
    \/ \E ok \in BOOLEAN : ProcRemovingStop(ok)
    \/ \E ok \in BOOLEAN : ProcRemovingRemove(ok)
    \/ ProcRemovingDelete(TRUE)
    \/ \E ok \in BOOLEAN : ProcStoppedFailed(ok)
    \/ ProcUnknown
    \/ UpdateFind(TRUE)
    \/ UpdateWrite(TRUE)

\* The program while shutdown() is not called and the store works.
NextLive ==
    \/ ReconcilerLive
    \/ \E r \in Handles \cup {Err} : create_container(r, TRUE)
    \/ \E i \in Ids, okStop, okRemove \in BOOLEAN : DeleteFind(i, TRUE, okStop, okRemove)
    \/ DeleteExec(TRUE)

SpecLive == Init /\ [][NextLive]_vars /\ WF_vars(ReconcilerLive)

\* ================================================================ claims
\* A call `o` with outcome `k` was made for the current row.
HasOp(o, k) == \E n \in 1..Len(ops) : ops[n].op = o /\ ops[n].ok = k

\* A call `o` with outcome `k` and value `v` was made for the current row.
HasOpVal(o, k, v) == \E n \in 1..Len(ops) : ops[n] = Op(o, k, v)

DriverOps == {"create", "start", "inspect", "stop", "remove"}

\* A driver call made for the current row failed.
DriverFailed == \E n \in 1..Len(ops) : ops[n].op \in DriverOps /\ ~ops[n].ok

\* process_single_container has returned for the row at `cur`, listed with
\* status `s`.
Returned(s) == pc = "ret" /\ container.status = s

\* C1: a row listed as Pending, for which create_container succeeded and the
\* store write succeeded, has status Created, the docker_id the driver
\* returned, and an updated_at later than the one listed.
C1_PendingCreated ==
    (Returned("Pending") /\ HasOp("create", TRUE) /\ HasOp("write", TRUE)
        /\ store[cur].present)
    => /\ store[cur].status = "Created"
       /\ HasOpVal("create", TRUE, store[cur].docker_id)
       /\ store[cur].updated_at > container.updated_at

C1_Witness ==
    /\ Returned("Pending")
    /\ HasOpVal("create", TRUE, "rt-2")
    /\ HasOp("write", TRUE)
    /\ store[cur] = Row("Created", "rt-2", 1)

C3_Original ==
    Returned("Removing") => (~store[cur].present /\ res # "driver_err")

\* C3 as amended: for a row listed as Removing the store delete is attempted
\* whatever stop and remove returned, no driver error is returned to the
\* loop, and the row is gone when the store delete succeeded.
C3_RemovingDeleted ==
    Returned("Removing")
    => /\ res # "driver_err"
       /\ HasOp("delete", TRUE) \/ HasOp("delete", FALSE)
       /\ HasOp("delete", TRUE) => (~store[cur].present /\ res = "ok")

C3_Witness ==
    /\ Returned("Removing")
    /\ ops = <<Op("stop", FALSE, "rt-1"), Op("remove", TRUE, "rt-1"),
               Op("delete", TRUE, None)>>
    /\ ~store[cur].present
    /\ res = "ok"

\* C4: when the for loop has logged an error in a tick, the rows listed after
\* the failing one are still processed (the listing is used up when the tick
\* is over) and they make their usual transition.
C4_Isolation ==
    /\ pc = "check" => \A i \in Ids : ~listing[i].present
    /\ (pc = "ret" /\ errs /\ res = "ok")
        => /\ (container.status = "Removing") => ~store[cur].present
           /\ store[cur].present =>
                /\ (container.status = "Pending" /\ HasOp("create", TRUE))
                     => store[cur].status = "Created"
                /\ (container.status = "Created" /\ HasOp("start", TRUE))
                     => store[cur].status = "Running"
                /\ (container.status \in {"Stopped", "Failed"})
                     => store[cur] = container

C4_Witness ==
    /\ Returned("Created")
    /\ errs
    /\ cur = 2
    /\ HasOp("start", TRUE)
    /\ store[cur].status = "Running"

\* The status the reported state is said to be mapped to.
MapStatus(s) == IF s \in StatusNames THEN s ELSE "Stopped"

\* C5: a Running row whose inspect reported a state other than "running",
\* and whose store write succeeded, has the reported state mapped into the
\* enumeration (Stopped when it is no enumeration name).
C5_InspectMapped ==
    \A s \in InspectStates \ {"running"} :
        (Returned("Running") /\ HasOpVal("inspect", TRUE, s) /\ HasOp("write", TRUE)
            /\ store[cur].present)
        => store[cur].status = MapStatus(s)

\* C6: every row of the store has one of the six status names.
C6_StatusInEnum ==
    \A i \in Ids : store[i].present => store[i].status \in StatusNames

\* C7 as stated: a row listed as Created with a docker_id is Running when
\* start_container succeeded and Failed when it failed, with the docker_id
\* it was listed with.
C7_Original ==
    (Returned("Created") /\ container.docker_id # None /\ store[cur].present)
    => /\ store[cur].status = IF HasOp("start", TRUE) THEN "Running" ELSE "Failed"
       /\ store[cur].docker_id = container.docker_id

\* C7 as amended: the same when the store write succeeded; when it did not,
\* the row keeps status Created; the docker_id is the listed one in all cases.
C7_CreatedStart ==
    (Returned("Created") /\ container.docker_id # None /\ store[cur].present)
    => /\ store[cur].docker_id = container.docker_id
       /\ HasOp("start", TRUE) \/ HasOp("start", FALSE)
       /\ HasOp("write", TRUE)
            => store[cur].status = IF HasOp("start", TRUE) THEN "Running" ELSE "Failed"
       /\ ~HasOp("write", TRUE) => store[cur] = container

C7_Witness ==
    /\ Returned("Created")
    /\ container.docker_id = "rt-2"
    /\ HasOp("start", FALSE)
    /\ HasOp("write", TRUE)
    /\ store[cur].status = "Failed"
    /\ store[cur].docker_id = "rt-2"

\* C8: for a Running row whose inspect reports "running" the pass makes no
\* store call and returns Ok, and the row is as it was listed.
C8_RunningNoop ==
    (Returned("Running") /\ HasOpVal("inspect", TRUE, "running"))
    => /\ ops = <<Op("inspect", TRUE, "running")>>
       /\ res = "ok"
       /\ store[cur].present => store[cur] = container

C8_Witness ==
    /\ Returned("Running")
    /\ ops = <<Op("inspect", TRUE, "running")>>
    /\ store[cur] = container
    /\ store[cur].updated_at > 0

\* C9: once shutdown() has been called the loop starts no reconcile pass:
\* with the flag set, the timer wait is not followed by process_containers.
C9_NoPassAfterShutdown ==
    [][shutdown_signal => ~(pc = "wait" /\ pc' = "list")]_vars

\* C10: every row the creation handler inserts has status Pending and no
\* docker_id when it is inserted.
C10_InsertedPending ==
    [][\A i \in Ids :
         (~store[i].present /\ store'[i].present)
         => (store'[i].status = "Pending" /\ store'[i].docker_id = None)]_vars

\* C11: every removal of a row from the store is made by the reconciler
\* while it processes a row it listed as Removing; the delete handler
\* removes no row and calls no driver.
C11_OnlyReconcilerDeletes ==
    [][/\ \A i \in Ids :
            (store[i].present /\ ~store'[i].present)
            => (pc \in {"proc", "delete"} /\ pc' = "ret" /\ cur = i
                /\ container.status = "Removing")
       /\ ~hdocker']_vars

\* C12: a row that has a docker_id and still exists after a step has a
\* docker_id after it.
C12_DockerIdKept ==
    [][\A i \in Ids :
         (store[i].present /\ store[i].docker_id # None /\ store'[i].present)
         => store'[i].docker_id # None]_vars

C12_Witness ==
    /\ Returned("Running")
    /\ HasOpVal("inspect", TRUE, "exited")
    /\ HasOp("write", TRUE)
    /\ container.docker_id = "rt-2"
    /\ store[cur].docker_id = "rt-2"

\* C13: every Pending row of the store has no docker_id.
C13_PendingNoDockerId ==
    \A i \in Ids :
        (store[i].present /\ store[i].status = "Pending") => store[i].docker_id = None

C13_Witness ==
    /\ Returned("Pending")
    /\ HasOp("create", TRUE)
    /\ HasOp("find", FALSE)
    /\ store[cur] = Row("Pending", None, 0)
    /\ store[2].present

\* The positions of the loop inside process_single_container and
\* update_container_status.
InPass == {"proc", "find", "write", "remove", "delete", "ret"}

\* C15: when the listing of a tick failed, the loop is back at its top (not
\* stopped), no row was handed to process_single_container, and no driver
\* or store call was made in that tick.
C15_ListErrorSkipsTick ==
    listed = "err"
    => /\ pc = "check"
       /\ cur = 0
       /\ \A i \in Ids : ~listing[i].present
       /\ ops = <<>>
       /\ upd = NoUpd
       /\ res = "none"

C15_Witness ==
    /\ listed = "err"
    /\ pc = "check"
    /\ ~shutdown_signal
    /\ store[1].present
    /\ store[1].status = "Pending"
    /\ hpc = "idle"

\* C16: a row with status Stopped or Failed that still exists after a step
\* has the same status and the same docker_id after it.
C16_Terminal ==
    [][\A i \in Ids :
         (store[i].present /\ store[i].status \in {"Stopped", "Failed"}
            /\ store'[i].present)
         => /\ store'[i].status = store[i].status
            /\ store'[i].docker_id = store[i].docker_id]_vars

C16_Witness ==
    /\ Returned("Failed")
    /\ ops = <<Op("remove", TRUE, "rt-1")>>
    /\ store[cur] = container
    /\ res = "ok"

\* C17: with the flag set, the loop is at its top or stopped only when every
\* listed row has been handed to process_single_container and has returned;
\* inside a pass the row in hand is a listed one.
C17_TickRunsToEnd ==
    shutdown_signal
    => /\ pc \in {"check", "done"} => \A i \in Ids : ~listing[i].present
       /\ pc \in InPass => (cur \in Ids /\ listing[cur].present)

C17_Witness ==
    /\ shutdown_signal
    /\ pc = "ret"
    /\ cur = 2
    /\ Later(cur) = {}
    /\ HasOp("start", TRUE)
    /\ HasOp("write", TRUE)
    /\ store[cur].status = "Running"
    /\ store[1].present

\* C19: for a row listed as Removing with a docker_id the calls are stop,
\* remove and the store delete, in this order, on that docker_id; without a
\* docker_id the store delete is the only call.
C19_RemovingOrder ==
    Returned("Removing")
    => IF container.docker_id # None
         THEN /\ Len(ops) = 3
              /\ ops[1].op = "stop" /\ ops[1].val = container.docker_id
              /\ ops[2].op = "remove" /\ ops[2].val = container.docker_id
              /\ ops[3].op = "delete"
         ELSE /\ Len(ops) = 1
              /\ ops[1].op = "delete"

C19_Witness ==
    /\ Returned("Removing")
    /\ ops = <<Op("stop", FALSE, "rt-1"), Op("remove", FALSE, "rt-1"),
               Op("delete", TRUE, None)>>
    /\ ~store[cur].present

C19_WitnessNoId ==
    /\ Returned("Removing")
    /\ container.docker_id = None
    /\ ops = <<Op("delete", TRUE, None)>>
    /\ ~store[cur].present

C18_ReturnsOnlyWhenStopped ==
    /\ [](pc = "done" => shutdown_signal)
    /\ shutdown_signal ~> (pc = "done")

C18_Witness ==
    /\ pc = "done"
    /\ shutdown_signal
    /\ store[2].present
    /\ store[2].status = "Running"
    /\ store[1].present
    /\ store[1].status = "Pending"

\* C20: for a row listed as Created without a docker_id the pass makes no
\* driver call and no store call and returns Ok; the row, when it still
\* exists, is as it was listed (status, docker_id and updated_at).
C20_CreatedNoIdNoop ==
    (Returned("Created") /\ container.docker_id = None)
    => /\ ops = <<>>
       /\ upd = NoUpd
       /\ res = "ok"
       /\ store[cur].present => store[cur] = container

C20_Witness ==
    /\ Returned("Created")
    /\ container = Row("Created", None, 0)
    /\ ops = <<>>
    /\ store[cur] = container

\* C21: for a row listed with a status that is none of the six names the
\* pass makes no driver call and no store call and returns Ok; the row, when
\* it still exists, is as it was listed (status, docker_id and updated_at).
C21_UnknownNoop ==
    (pc = "ret" /\ container.present /\ container.status \notin StatusNames)
    => /\ ops = <<>>
       /\ upd = NoUpd
       /\ res = "ok"
       /\ store[cur].present => store[cur] = container

C21_Witness ==
    /\ pc = "ret"
    /\ container = Row("exited", "rt-2", 3)
    /\ ops = <<>>
    /\ res = "ok"
    /\ store[cur] = container

\* C22: a row enters the store only by the insert of create_container under
\* a fresh id; when the row in hand is gone at the find or at the update of
\* update_container_status, the call returns a store error and the row stays
\* absent; and after a store error the for loop goes on to the next listed row.
C22_NoRecreate ==
    [][/\ \A i \in Ids :
            (~store[i].present /\ store'[i].present)
            => (i = nextId /\ nextId' = nextId + 1 /\ UNCHANGED recon)
       /\ (pc \in {"find", "write"} /\ ~store[cur].present /\ pc' # pc)
            => (pc' = "ret" /\ res' = "store_err" /\ ~store'[cur].present)
       /\ (pc = "ret" /\ res = "store_err" /\ Later(cur) # {} /\ pc' # pc)
            => (pc' = "proc" /\ cur' = Min(Later(cur)))]_vars

C22_Witness ==
    /\ pc = "ret"
    /\ cur = 1
    /\ container.status = "Created"
    /\ HasOp("find", TRUE)
    /\ HasOp("write", FALSE)
    /\ res = "store_err"
    /\ ~store[cur].present
    /\ Later(cur) # {}
    /\ hpc = "idle"

\* C23: every row of the store with status Created or Running has a
\* docker_id.
C23_CreatedRunningHaveId ==
    \A i \in Ids :
        (store[i].present /\ store[i].status \in {"Created", "Running"})
        => store[i].docker_id # None

C23_Witness ==
    /\ store[1] = Row("Created", "rt-2", 1)
    /\ store[2].present
    /\ store[2].status = "Running"
    /\ store[2].docker_id = "rt-1"
    /\ store[2].updated_at = 2

\* docker create_container has just been called for row `i`.
CreateCalled(i) ==
    pc = "find" /\ cur = i /\ ops # <<>> /\ ops[Len(ops)].op = "create"

\* The for loop hands row `i`, listed as Pending, to the Pending arm.
PendingListed(i) == pc = "proc" /\ cur = i /\ container.status = "Pending"

\* C24: docker create_container is called only for a row listed as Pending,
\* once in a pass; after a successful store write of that pass the row is
\* Created or Failed; and while the store works, a row for which create was
\* called is never again listed as Pending, so create is called at most once
\* for it.
C24_CreateAtMostOnce ==
    /\ [](  (HasOp("create", TRUE) \/ HasOp("create", FALSE))
            => /\ container.status = "Pending"
               /\ Cardinality({n \in 1..Len(ops) : ops[n].op = "create"}) = 1)
    /\ [](  (Returned("Pending") /\ HasOp("write", TRUE) /\ store[cur].present)
            => store[cur].status \in {"Created", "Failed"})
    /\ \A i \in Ids : [](CreateCalled(i) => [](~PendingListed(i)))

C24_Witness ==
    /\ pc = "ret"
    /\ cur = 1
    /\ container = Row("Failed", None, 1)
    /\ store[cur] = container
    /\ ops = <<>>
    /\ res = "ok"

\* Row `i` of the store is Stopped or Failed and has a docker_id.
Cleanable(i) ==
    /\ store[i].present
    /\ store[i].status \in {"Stopped", "Failed"}
    /\ store[i].docker_id # None

\* A pass for row `i` has returned after calling docker remove_container
\* on the docker_id of the row.
RemoveCalled(i) ==
    /\ pc = "ret"
    /\ cur = i
    /\ Len(ops) = 1
    /\ ops[1].op = "remove"
    /\ ops[1].val = container.docker_id

\* C25: a pass for a row listed as Stopped or Failed with a docker_id calls
\* docker remove_container on that docker_id; and while the loop keeps
\* ticking, whenever such a row is in the store a pass that calls remove
\* for it (or its deletion) follows, again and again.
C25_CleanupEveryTick ==
    /\ [](  (pc = "ret" /\ container.status \in {"Stopped", "Failed"}
               /\ container.docker_id # None)
            => RemoveCalled(cur))
    /\ \A i \in Ids : [](Cleanable(i) => <>(RemoveCalled(i) \/ ~store[i].present))

C25_Witness ==
    /\ Returned("Failed")
    /\ container = Row("Failed", "rt-2", 2)
    /\ ops = <<Op("remove", TRUE, "rt-2")>>
    /\ store[cur] = container

====
